---- MODULE Spec2Model ----
(***************************************************************************)
(* Shift-task tracking backend (task_control_fapi): the relational store   *)
(* of tasks, products, brigades and work centers, the repositories and     *)
(* services that change it, and the HTTP handlers that report the result.  *)
(* One action is one HTTP request served on its own database session.      *)
(***************************************************************************)
EXTENDS Integers, Sequences, FiniteSets, TLC

VARIABLES
    db,       \* the committed store: tasks, products, brigades, work_centers
    now,      \* the last value datetime.now() returned
    last,     \* the response to the last request: handler, exceptions, status,
              \* what it returned, and session.in_transaction() as it returned
    aggLog,   \* the successful aggregation requests so far, with their time
    sessions  \* the sessions that run a repository call statement by statement,
              \* concurrently: position, arguments, rows inserted and not committed

vars == <<db, now, last, aggLog, sessions>>

(***************************************************************************)
(* Bounds of the model.                                                    *)
(***************************************************************************)
MaxTasks == 2
MaxProductId == 2
MaxTime == 2
MaxSessions == 2
MaxDepth == 2

(***************************************************************************)
(* Values.                                                                 *)
(***************************************************************************)
None == "None"          \* Python None where a string or an exception is expected
NoTime == 0             \* NULL in a timestamp column; timestamps are 1, 2, ...
NoId == 0               \* no row found; ids start at 1

\* Column default of Product.nomenclature.
DefaultNomenclature == "Izdelie"

TaskIds == 1..MaxTasks
EknCodes == {"E1", "E2"}
BatchNumbers == {1, 2}
ShiftTimes == {1, 2}
BrigadeNames == {"B1", "B2"}
WorkCenterNames == {"W1", "W2"}

\* Optional[List[...]]: <<>> is None, <<l>> is the list l.
Some(v) == <<v>>
Nothing == <<>>

Min(S) == CHOOSE m \in S : \A n \in S : m <= n

(***************************************************************************)
(* Exceptions.  An exception is the name of its class; constructing one    *)
(* with the wrong number of positional arguments raises TypeError instead. *)
(***************************************************************************)
ProductNotFoundException(nargs) ==
    IF nargs = 1 THEN "ProductNotFoundException" ELSE "TypeError"

ProductWrongBatchException(nargs) ==
    IF nargs = 2 THEN "ProductWrongBatchException" ELSE "TypeError"

ProductAlreadyAggregatedException(nargs) ==
    IF nargs = 2 THEN "ProductAlreadyAggregatedException" ELSE "TypeError"

RepositoryException(nargs) ==
    IF nargs = 2 THEN "RepositoryException" ELSE "TypeError"

(***************************************************************************)
(* The session.  work is what the session sees, committed is what the      *)
(* store holds, in_tx is AsyncSession.in_transaction().                    *)
(***************************************************************************)
EmptyStore ==
    [tasks |-> <<>>, products |-> {}, brigades |-> <<>>, work_centers |-> <<>>,
     product_seq |-> 0]

AsyncSessionLocal(d) == [work |-> d, committed |-> d, in_tx |-> FALSE]

\* Any statement sent through the session begins a transaction (autobegin).
execute(s) == [s EXCEPT !.in_tx = TRUE]

commit(s) == [s EXCEPT !.committed = s.work, !.in_tx = FALSE]

rollback(s) == [s EXCEPT !.work = s.committed, !.in_tx = FALSE]

\* A close that keeps what the session holds.
get_db_flushed(s) == s.work

\* session.close() at the end of the request: what was not committed is lost.
get_db(s) == rollback(s).committed

\* BaseRepository._transaction, entered with session s0: the body runs on
\* transaction_enter(s0) and its result r leaves through transaction_exit.
transaction_enter(s0) == [s0 EXCEPT !.in_tx = TRUE]

\* A scope that commits or rolls back at its exit wherever it was entered.
transaction_exit_always(s0, r) ==
    IF r.exc = None THEN [r EXCEPT !.s = commit(r.s)]
    ELSE [r EXCEPT !.s = rollback(r.s)]

transaction_exit(s0, r) ==
    IF s0.in_tx THEN r
    ELSE IF r.exc = None THEN [r EXCEPT !.s = commit(r.s)]
    ELSE [r EXCEPT !.s = rollback(r.s)]

Ok(s, ret) == [s |-> s, exc |-> None, ret |-> ret]
Raise(s, exc) == [s |-> s, exc |-> exc, ret |-> NoId]

(***************************************************************************)
(* Brigade and work center repositories.                                   *)
(***************************************************************************)
FindByName(rows, name) ==
    LET ids == {i \in DOMAIN rows : rows[i] = name}
    IN IF ids = {} THEN NoId ELSE Min(ids)

\* get_or_create_brigade without the lookup: every call inserts.
get_or_create_brigade_body_insert(s, name) ==
    Ok([s EXCEPT !.work.brigades = Append(@, name)], Len(s.work.brigades) + 1)

get_or_create_brigade_body(s, name) ==
    LET found == FindByName(s.work.brigades, name)
    IN IF found # NoId THEN Ok(s, found)
       ELSE Ok([s EXCEPT !.work.brigades = Append(@, name)],
               Len(s.work.brigades) + 1)

get_or_create_brigade(s, name) ==
    transaction_exit(s, get_or_create_brigade_body(transaction_enter(s), name))

get_or_create_work_center_body(s, name) ==
    LET found == FindByName(s.work.work_centers, name)
    IN IF found # NoId THEN Ok(s, found)
       ELSE Ok([s EXCEPT !.work.work_centers = Append(@, name)],
               Len(s.work.work_centers) + 1)

get_or_create_work_center(s, name) ==
    transaction_exit(s, get_or_create_work_center_body(transaction_enter(s), name))

(***************************************************************************)
(* Product repository.                                                     *)
(***************************************************************************)
ProductRow(id, nomenclature, ekn_code, is_aggregated, task_id) ==
    [id |-> id, nomenclature |-> nomenclature, ekn_code |-> ekn_code,
     is_aggregated |-> is_aggregated, aggregated_at |-> NoTime, task_id |-> task_id]

\* The unique constraint on product.ekn_code rejects the INSERT at flush; the
\* column is nullable and NULLs never collide.
EknTaken(d, ekn_code) ==
    ekn_code # None /\ \E p \in d.products : p.ekn_code = ekn_code

\* create_product_data on a column without the unique constraint.
create_product_data_body_unchecked(s, product, task) ==
    Ok([s EXCEPT !.work.products = @ \cup
                    {ProductRow(s.work.product_seq + 1, product.nomenclature,
                                product.ekn_code, product.is_aggregated, task)},
                 !.work.product_seq = @ + 1],
       s.work.product_seq + 1)

create_product_data_body(s, product, task) ==
    IF EknTaken(s.work, product.ekn_code)
    THEN Raise(s, RepositoryException(1))
    ELSE Ok([s EXCEPT !.work.products = @ \cup
                         {ProductRow(s.work.product_seq + 1, product.nomenclature,
                                     product.ekn_code, product.is_aggregated, task)},
                      !.work.product_seq = @ + 1],
            s.work.product_seq + 1)

create_product_data(s, product, task) ==
    transaction_exit(s, create_product_data_body(transaction_enter(s), product, task))

\* The rows update_task_products adds for products_data[i..], numbered from
\* seq + 1.  An entry is a dict read with .get: a key it lacks reads as None.
RECURSIVE NewProducts(_, _, _, _)
NewProducts(products_data, i, seq, task_id) ==
    IF i > Len(products_data) THEN {}
    ELSE {ProductRow(seq + 1, products_data[i].nomenclature,
                     products_data[i].ekn_code, FALSE, task_id)}
         \cup NewProducts(products_data, i + 1, seq + 1, task_id)

\* flush of the added rows fails when two rows would hold one ekn_code.
FlushFails(kept, products_data) ==
    \/ \E i \in DOMAIN products_data :
          /\ products_data[i].ekn_code # None
          /\ \E p \in kept : p.ekn_code = products_data[i].ekn_code
    \/ \E i, j \in DOMAIN products_data :
          /\ i # j
          /\ products_data[i].ekn_code # None
          /\ products_data[i].ekn_code = products_data[j].ekn_code

\* update_task_products without its DELETE: the new rows are added to the old.
update_task_products_body_added(s, task_id, products_data) ==
    IF FlushFails(s.work.products, products_data)
    THEN Raise(s, RepositoryException(1))
    ELSE Ok([s EXCEPT
                !.work.products =
                    @ \cup NewProducts(products_data, 1, s.work.product_seq, task_id),
                !.work.product_seq = @ + Len(products_data)],
            Len(products_data))

\* update_task_products whose DELETE takes the task with its products.
update_task_products_body_cascade(s, task_id, products_data) ==
    LET kept == {p \in s.work.products : p.task_id # task_id}
        Other(task) == task.id # task_id
        deleted == [s EXCEPT !.work.products = kept,
                             !.work.tasks = SelectSeq(@, Other)]
    IN IF FlushFails(kept, products_data)
       THEN Raise(deleted, RepositoryException(1))
       ELSE Ok([deleted EXCEPT
                   !.work.products =
                       kept \cup NewProducts(products_data, 1,
                                             s.work.product_seq, task_id),
                   !.work.product_seq = @ + Len(products_data)],
               Len(products_data))

update_task_products_body(s, task_id, products_data) ==
    LET kept == {p \in s.work.products : p.task_id # task_id}
        deleted == [s EXCEPT !.work.products = kept]
    IN IF FlushFails(kept, products_data)
       THEN Raise(deleted, RepositoryException(1))
       ELSE Ok([deleted EXCEPT
                   !.work.products =
                       kept \cup NewProducts(products_data, 1,
                                             s.work.product_seq, task_id),
                   !.work.product_seq = @ + Len(products_data)],
               Len(products_data))

update_task_products(s, task_id, products_data) ==
    transaction_exit(s, update_task_products_body(transaction_enter(s), task_id,
                                                  products_data))

\* datetime.fromisoformat on the batch_date strings of the requests:
\* the date it denotes, or NoTime when it raises ValueError.
fromisoformat(batch_date_str) ==
    CASE batch_date_str = "2023-01-01" -> 1
      [] batch_date_str = "2023-01-02" -> 2
      [] OTHER -> NoTime

\* select(Task).where(batch_number, batch_date) ... .first(): the query has no
\* ORDER BY; the store is taken to return rows in id order.
FirstTaskOfBatch(d, batch_number, batch_date) ==
    LET ids == {i \in DOMAIN d.tasks :
                    /\ d.tasks[i].batch_number = batch_number
                    /\ d.tasks[i].batch_date = batch_date}
    IN IF ids = {} THEN NoId ELSE Min(ids)

\* One turn of the loop of add_products_to_batches.
add_product_to_batch(s, product_data) ==
    LET batch_date == fromisoformat(product_data.batch_date)
        task == FirstTaskOfBatch(s.work, product_data.batch_number, batch_date)
        found == {p \in s.work.products : p.ekn_code = product_data.ekn_code}
    IN IF batch_date = NoTime THEN s
       ELSE IF task = NoId THEN s
       ELSE IF found = {}
       THEN [s EXCEPT !.work.products = @ \cup
                         {ProductRow(s.work.product_seq + 1, DefaultNomenclature,
                                     product_data.ekn_code, FALSE, task)},
                      !.work.product_seq = @ + 1]
       ELSE LET product == CHOOSE p \in found : TRUE
            IN [s EXCEPT !.work.products =
                            (@ \ {product}) \cup {[product EXCEPT !.task_id = task]}]

\* The loop of add_products_to_batches left after its first entry.
add_products_loop_first(s, products_data, i) ==
    IF i > Len(products_data) THEN s
    ELSE add_product_to_batch(s, products_data[i])

RECURSIVE add_products_loop(_, _, _)
add_products_loop(s, products_data, i) ==
    IF i > Len(products_data) THEN s
    ELSE add_products_loop(add_product_to_batch(s, products_data[i]),
                           products_data, i + 1)

\* added_products is never appended to: the list returned is empty.
add_products_to_batches_body(s, products_data) ==
    Ok(add_products_loop(s, products_data, 1), <<>>)

add_products_to_batches(s, products_data) ==
    transaction_exit(s, add_products_to_batches_body(transaction_enter(s),
                                                     products_data))

\* The try block of aggregate_product; clock is what datetime.now() returns.
\* aggregate_product_try without await self.db.commit(): the change stays in the
\* session and is discarded when the session closes.
aggregate_product_try_uncommitted(s, task_id, ekn_code, clock) ==
    LET s1 == execute(s)
        found == {p \in s1.work.products : p.ekn_code = ekn_code}
    IN IF found = {} THEN Raise(s1, ProductNotFoundException(1))
       ELSE LET product == CHOOSE p \in found : TRUE
            IN IF product.task_id # task_id
               THEN Raise(s1, ProductWrongBatchException(1))
               ELSE IF product.is_aggregated
               THEN Raise(s1, ProductAlreadyAggregatedException(1))
               ELSE Ok([s1 EXCEPT !.work.products =
                           (@ \ {product}) \cup
                           {[product EXCEPT !.is_aggregated = TRUE,
                                            !.aggregated_at = clock]}],
                       ekn_code)

aggregate_product_try(s, task_id, ekn_code, clock) ==
    LET s1 == execute(s)
        found == {p \in s1.work.products : p.ekn_code = ekn_code}
    IN IF found = {} THEN Raise(s1, ProductNotFoundException(1))
       ELSE LET product == CHOOSE p \in found : TRUE
            IN IF product.task_id # task_id
               THEN Raise(s1, ProductWrongBatchException(1))
               ELSE IF product.is_aggregated
               THEN Raise(s1, ProductAlreadyAggregatedException(1))
               ELSE Ok(commit([s1 EXCEPT !.work.products =
                                  (@ \ {product}) \cup
                                  {[product EXCEPT !.is_aggregated = TRUE,
                                                   !.aggregated_at = clock]}]),
                       ekn_code)

\* except Exception: rollback, then raise RepositoryException(message).
aggregate_product(s, task_id, ekn_code, clock) ==
    LET r == aggregate_product_try(s, task_id, ekn_code, clock)
    IN IF r.exc = None THEN r
       ELSE Raise(rollback(r.s), RepositoryException(1))

(***************************************************************************)
(* Task repository.                                                        *)
(***************************************************************************)
TaskRow(id, task, brigade, work_center) ==
    [id |-> id, status_close |-> task.status_close, closed_date |-> NoTime,
     task_description |-> task.task_description, shift |-> task.shift,
     shift_start |-> task.shift_start, shift_end |-> task.shift_end,
     batch_number |-> task.batch_number, batch_date |-> task.batch_date,
     brigade_id |-> brigade, work_center_id |-> work_center]

_add_task_body(s, task, brigade, work_center) ==
    Ok([s EXCEPT !.work.tasks =
                    Append(@, TaskRow(Len(s.work.tasks) + 1, task, brigade, work_center))],
       Len(s.work.tasks) + 1)

_add_task(s, task, brigade, work_center) ==
    transaction_exit(s, _add_task_body(transaction_enter(s), task, brigade, work_center))

\* for product_data in products: create_product_data(product_data, task)
RECURSIVE create_products(_, _, _, _)
create_products(s, products, i, task) ==
    IF i > Len(products) THEN Ok(s, task)
    ELSE LET r == create_product_data(s, products[i], task)
         IN IF r.exc # None THEN r
            ELSE create_products(r.s, products, i + 1, task)

\* task_data.brigade.name and task_data.work_center.name raise AttributeError
\* on None; iterating task_data.product raises TypeError on None.
create_task_body(s, task_data) ==
    IF task_data.brigade = None THEN Raise(s, "AttributeError")
    ELSE LET rb == get_or_create_brigade(s, task_data.brigade)
         IN IF rb.exc # None THEN rb
            ELSE IF task_data.work_center = None THEN Raise(rb.s, "AttributeError")
            ELSE LET rw == get_or_create_work_center(rb.s, task_data.work_center)
                 IN IF rw.exc # None THEN rw
                    ELSE LET rt == _add_task(rw.s, task_data, rb.ret, rw.ret)
                         IN IF rt.exc # None THEN rt
                            ELSE IF task_data.product = Nothing
                            THEN Raise(rt.s, "TypeError")
                            ELSE create_products(rt.s, task_data.product[1], 1, rt.ret)

create_task(s, task_data) ==
    transaction_exit(s, create_task_body(transaction_enter(s), task_data))

EmptyCache == [n \in {} |-> NoId]

CachePut(cache, name, id) ==
    [n \in DOMAIN cache \cup {name} |-> IF n = name THEN id ELSE cache[n]]

\* First loop of create_tasks: the brigades and work centers, through the caches.
RECURSIVE create_tasks_relations(_, _, _, _, _)
create_tasks_relations(s, tasks_data, i, brigade_cache, work_center_cache) ==
    IF i > Len(tasks_data)
    THEN Ok(s, [brigade_cache |-> brigade_cache, work_center_cache |-> work_center_cache])
    ELSE IF tasks_data[i].brigade = None THEN Raise(s, "AttributeError")
    ELSE LET bname == tasks_data[i].brigade
             rb == IF bname \in DOMAIN brigade_cache
                   THEN Ok(s, brigade_cache[bname])
                   ELSE get_or_create_brigade(s, bname)
         IN IF rb.exc # None THEN rb
            ELSE IF tasks_data[i].work_center = None THEN Raise(rb.s, "AttributeError")
            ELSE LET wname == tasks_data[i].work_center
                     rw == IF wname \in DOMAIN work_center_cache
                           THEN Ok(rb.s, work_center_cache[wname])
                           ELSE get_or_create_work_center(rb.s, wname)
                 IN IF rw.exc # None THEN rw
                    ELSE create_tasks_relations(rw.s, tasks_data, i + 1,
                             CachePut(brigade_cache, bname, rb.ret),
                             CachePut(work_center_cache, wname, rw.ret))

\* Second loop of create_tasks: the task rows; ret is the list of their ids.
RECURSIVE create_tasks_rows(_, _, _, _, _)
create_tasks_rows(s, tasks_data, i, caches, created_tasks) ==
    IF i > Len(tasks_data) THEN Ok(s, created_tasks)
    ELSE LET r == _add_task(s, tasks_data[i],
                            caches.brigade_cache[tasks_data[i].brigade],
                            caches.work_center_cache[tasks_data[i].work_center])
         IN IF r.exc # None THEN r
            ELSE create_tasks_rows(r.s, tasks_data, i + 1, caches,
                                   Append(created_tasks, r.ret))

\* if task_data.product: None and the empty list are both skipped.
ProductsTruthy(product) == product # Nothing /\ product[1] # <<>>

\* Third loop of create_tasks: the products of each task.
RECURSIVE create_tasks_products(_, _, _, _)
create_tasks_products(s, tasks_data, i, created_tasks) ==
    IF i > Len(tasks_data) THEN Ok(s, created_tasks)
    ELSE LET r == IF ProductsTruthy(tasks_data[i].product)
                  THEN create_products(s, tasks_data[i].product[1], 1, created_tasks[i])
                  ELSE Ok(s, created_tasks[i])
         IN IF r.exc # None THEN r
            ELSE create_tasks_products(r.s, tasks_data, i + 1, created_tasks)

\* create_tasks with a commit where the code flushes the new tasks.
create_tasks_body_committed(s, tasks_data) ==
    LET r1 == create_tasks_relations(s, tasks_data, 1, EmptyCache, EmptyCache)
    IN IF r1.exc # None THEN r1
       ELSE LET r2 == create_tasks_rows(r1.s, tasks_data, 1, r1.ret, <<>>)
            IN IF r2.exc # None THEN r2
               ELSE create_tasks_products(commit(r2.s), tasks_data, 1, r2.ret)

create_tasks_body(s, tasks_data) ==
    LET r1 == create_tasks_relations(s, tasks_data, 1, EmptyCache, EmptyCache)
    IN IF r1.exc # None THEN r1
       ELSE LET r2 == create_tasks_rows(r1.s, tasks_data, 1, r1.ret, <<>>)
            IN IF r2.exc # None THEN r2
               ELSE create_tasks_products(r2.s, tasks_data, 1, r2.ret)

create_tasks(s, tasks_data) ==
    transaction_exit(s, create_tasks_body(transaction_enter(s), tasks_data))

\* The attributes of Task that update_task sets from update_data: hasattr(task,
\* field) and field not in ["products", "brigade", "work_center"].
TaskScalarFields ==
    {"status_close", "closed_date", "task_description", "shift", "shift_start",
     "shift_end", "batch_number", "batch_date", "brigade_id", "work_center_id", "id"}

SetField(keys, field, new, old) ==
    IF field \in keys /\ field \in TaskScalarFields THEN new ELSE old

setattr_fields(task, update_data) ==
    [task EXCEPT
        !.status_close = SetField(update_data.keys, "status_close",
                                  update_data.status_close, @),
        !.closed_date = SetField(update_data.keys, "closed_date",
                                 update_data.closed_date, @),
        !.task_description = SetField(update_data.keys, "task_description",
                                      update_data.task_description, @),
        !.shift = SetField(update_data.keys, "shift", update_data.shift, @),
        !.shift_start = SetField(update_data.keys, "shift_start",
                                 update_data.shift_start, @),
        !.shift_end = SetField(update_data.keys, "shift_end",
                               update_data.shift_end, @)]

\* The methods TaskRepository defines.
TaskRepositoryMethods ==
    {"create_task", "create_tasks", "get_task_by_id", "update_task",
     "_update_task_relations", "get_tasks_with_filters", "find_task_by_batch",
     "_add_task"}

\* bool(name) of an Optional[str].
Truthy(name) == name # None /\ name # ""

_update_task_relations_body(s, task_id, brigade_name, work_center_name) ==
    LET rb == IF Truthy(brigade_name)
              THEN get_or_create_brigade(s, brigade_name)
              ELSE Ok(s, s.work.tasks[task_id].brigade_id)
    IN IF rb.exc # None THEN Raise(rb.s, RepositoryException(1))
       ELSE LET rw == IF Truthy(work_center_name)
                      THEN get_or_create_work_center(rb.s, work_center_name)
                      ELSE Ok(rb.s, rb.s.work.tasks[task_id].work_center_id)
            IN IF rw.exc # None THEN Raise(rw.s, RepositoryException(1))
               ELSE Ok(commit([rw.s EXCEPT
                                  !.work.tasks[task_id].brigade_id = rb.ret,
                                  !.work.tasks[task_id].work_center_id = rw.ret]),
                       task_id)

_update_task_relations(s, task_id, brigade_name, work_center_name) ==
    transaction_exit(s, _update_task_relations_body(transaction_enter(s), task_id,
                                                    brigade_name, work_center_name))

\* update_task calls self.update_task_relations, which is looked up by name.
call_update_task_relations(s, task_id, brigade_name, work_center_name) ==
    IF "update_task_relations" \in TaskRepositoryMethods
    THEN _update_task_relations(s, task_id, brigade_name, work_center_name)
    ELSE Raise(s, "AttributeError")

\* The except clause calls self.db.rollback() without awaiting it (nothing is
\* rolled back here) and re-raises.
update_task_body(s, task_id, update_data) ==
    LET s1 == execute(s)
    IN IF task_id \notin DOMAIN s1.work.tasks THEN Raise(s1, "TaskNotFoundException")
       ELSE LET s2 == [s1 EXCEPT !.work.tasks[task_id] = setattr_fields(@, update_data)]
                rp == IF "products" \in update_data.keys
                      THEN update_task_products(s2, task_id, update_data.products)
                      ELSE Ok(s2, 0)
                brigade_name == IF "brigade" \in update_data.keys
                                THEN update_data.brigade ELSE None
                work_center_name == IF "work_center" \in update_data.keys
                                    THEN update_data.work_center ELSE None
            IN IF rp.exc # None THEN rp
               ELSE LET rr == IF Truthy(brigade_name) \/ Truthy(work_center_name)
                              THEN call_update_task_relations(rp.s, task_id, brigade_name,
                                                              work_center_name)
                              ELSE Ok(rp.s, task_id)
                    IN IF rr.exc # None THEN rr
                       ELSE Ok(commit(rr.s), task_id)

update_task(s, task_id, update_data) ==
    transaction_exit(s, update_task_body(transaction_enter(s), task_id, update_data))

(***************************************************************************)
(* Services.  A service result adds cause, the exception the repository    *)
(* call raised, and status_code when the exception is an HTTPException.    *)
(***************************************************************************)
Served(r, exc, status_code) ==
    [s |-> r.s, exc |-> exc, ret |-> r.ret, cause |-> r.exc, status_code |-> status_code]

\* TaskService.create: any exception of the repository becomes ValidationError.
TaskService_create(s, task_data) ==
    LET r == create_task(s, task_data)
    IN Served(r, IF r.exc = None THEN None ELSE "ValidationError", 0)

ShiftInvalid(task) == task.shift_start >= task.shift_end

\* TaskService.create_batch: the checks, then create_tasks; exceptions re-raised.
TaskService_create_batch(s, tasks_data) ==
    IF tasks_data = <<>> THEN Served(Raise(s, None), "ValidationError", 0)
    ELSE IF \E i \in DOMAIN tasks_data : ShiftInvalid(tasks_data[i])
    THEN Served(Raise(s, None), "ValidationError", 0)
    ELSE LET r == create_tasks(s, tasks_data)
         IN Served(r, r.exc, 0)

\* The closed_date rule without its else branch: closed_date is stamped whatever
\* status_close the request supplies.
WithClosedDate_stamped(update_dict, clock) ==
    IF "status_close" \in update_dict.keys
    THEN [update_dict EXCEPT
             !.keys = @ \cup {"closed_date"},
             !.closed_date = clock]
    ELSE update_dict

\* update_dict of TaskService.update after the closed_date rule.
WithClosedDate(update_dict, clock) ==
    IF "status_close" \in update_dict.keys
    THEN [update_dict EXCEPT
             !.keys = @ \cup {"closed_date"},
             !.closed_date = IF update_dict.status_close THEN clock ELSE NoTime]
    ELSE update_dict

TaskService_update(s, task_id, update_data, clock) ==
    LET s1 == execute(s)
    IN IF task_id \notin DOMAIN s1.work.tasks
       THEN Served(Raise(s1, None), "TaskNotFoundException", 0)
       ELSE LET r == update_task(s1, task_id, WithClosedDate(update_data, clock))
            IN Served(r, r.exc, 0)

\* TaskService.get
TaskService_get(s, task_id) ==
    LET s1 == execute(s)
    IN IF task_id \notin DOMAIN s1.work.tasks
       THEN Served(Raise(s1, None), "TaskNotFoundException", 0)
       ELSE Served(Ok(s1, task_id), None, 0)

\* BaseService._validate_pagination: the exception it raises, or None.
MaxLimit == 1000

validate_pagination_inclusive(offset, limit) ==
    IF limit >= MaxLimit THEN "ValidationError"
    ELSE IF offset < 0 THEN "ValidationError"
    ELSE None

_validate_pagination(offset, limit) ==
    IF limit > MaxLimit THEN "ValidationError"
    ELSE IF offset < 0 THEN "ValidationError"
    ELSE None

\* The where clauses with the status_close clause added on truthiness: a
\* filter status_close = False adds none.
TaskMatches_truthy(task, filters) ==
    /\ filters.status_close = Nothing \/ ~filters.status_close[1] \/ task.status_close
    /\ filters.batch_number = Nothing \/ task.batch_number = filters.batch_number[1]
    /\ filters.batch_date = Nothing \/ task.batch_date = filters.batch_date[1]
    /\ filters.work_center_id = Nothing
          \/ task.work_center_id = filters.work_center_id[1]
    /\ filters.brigade_id = Nothing \/ task.brigade_id = filters.brigade_id[1]
    /\ filters.shift_start_from = Nothing
          \/ task.shift_start >= filters.shift_start_from[1]
    /\ filters.shift_start_to = Nothing
          \/ task.shift_start <= filters.shift_start_to[1]

\* The where clauses of get_tasks_with_filters: a filter that is None adds none.
TaskMatches(task, filters) ==
    /\ filters.status_close = Nothing \/ task.status_close = filters.status_close[1]
    /\ filters.batch_number = Nothing \/ task.batch_number = filters.batch_number[1]
    /\ filters.batch_date = Nothing \/ task.batch_date = filters.batch_date[1]
    /\ filters.work_center_id = Nothing
          \/ task.work_center_id = filters.work_center_id[1]
    /\ filters.brigade_id = Nothing \/ task.brigade_id = filters.brigade_id[1]
    /\ filters.shift_start_from = Nothing
          \/ task.shift_start >= filters.shift_start_from[1]
    /\ filters.shift_start_to = Nothing
          \/ task.shift_start <= filters.shift_start_to[1]

\* TaskRepository.get_tasks_with_filters: the ids of the tasks returned, the
\* rows taken in id order.
get_tasks_with_filters(s, filters, offset, limit) ==
    LET s1 == execute(s)
        Test(task) == TaskMatches(task, filters)
        matched == SelectSeq(s1.work.tasks, Test)
        first == offset + 1
        end == IF offset + limit < Len(matched) THEN offset + limit ELSE Len(matched)
    IN Ok(s1, [i \in 1..(IF end >= first THEN end - first + 1 ELSE 0) |->
                  matched[first + i - 1].id])

\* TaskService.get_filtered
TaskService_get_filtered(s, filters, offset, limit) ==
    IF _validate_pagination(offset, limit) # None
    THEN Served(Raise(s, None), _validate_pagination(offset, limit), 0)
    ELSE LET r == get_tasks_with_filters(s, filters, offset, limit)
         IN Served(r, r.exc, 0)

\* ProductService.add_products_to_batches: every exception, the ValidationError of
\* the empty list included, leaves as HTTPException(500).
ProductService_add_products_to_batches(s, products_data) ==
    IF products_data = <<>> THEN Served(Raise(s, None), "HTTPException", 500)
    ELSE LET r == add_products_to_batches(s, products_data)
         IN IF r.exc = None THEN Served(r, None, 0)
            ELSE Served(r, "HTTPException", 500)

ProductService_aggregate_product(s, task_id, ekn_code, clock) ==
    LET r == aggregate_product(s, task_id, ekn_code, clock)
    IN IF r.exc = None THEN Served(r, None, 0)
       ELSE IF r.exc = "ProductNotFoundException" THEN Served(r, "HTTPException", 404)
       ELSE IF r.exc \in {"ProductWrongBatchException",
                          "ProductAlreadyAggregatedException"}
       THEN Served(r, "HTTPException", 400)
       ELSE Served(r, "HTTPException", 500)

(***************************************************************************)
(* Routes: the status each handler answers with.                           *)
(***************************************************************************)
\* A handler that lets the exception through to the server's own 500.
TaskRouter_create_task_unhandled(r) == IF r.exc = None THEN 201 ELSE 500

TaskRouter_create_task(r) == IF r.exc = None THEN 201 ELSE 400

TaskRouter_create_tasks(r) == IF r.exc = None THEN 201 ELSE 400

\* update_task without its except TaskNotFoundException clause.
TaskRouter_update_task_other(r) == IF r.exc = None THEN 200 ELSE 400

TaskRouter_update_task(r) ==
    IF r.exc = None THEN 200
    ELSE IF r.exc = "TaskNotFoundException" THEN 404
    ELSE 400

TaskRouter_read_task(r) ==
    IF r.exc = None THEN 200
    ELSE IF r.exc = "TaskNotFoundException" THEN 404
    ELSE 400

TaskRouter_read_filter_tasks(r) == IF r.exc = None THEN 200 ELSE 400

TaskRouter_add_products_to_tasks(r) == IF r.exc = None THEN 200 ELSE 400

TaskRouter_aggregate_tasks(r) ==
    IF r.exc = None THEN 200
    ELSE IF r.exc = "HTTPException" THEN r.status_code
    ELSE 500

(***************************************************************************)
(* Requests.                                                               *)
(***************************************************************************)
\* schemas.ProductCreate
ProductCreates ==
    [nomenclature : {DefaultNomenclature}, ekn_code : EknCodes, is_aggregated : BOOLEAN]

ProductLists == {<<>>} \cup {<<p>> : p \in ProductCreates}

OptionalProductLists == {Nothing} \cup {Some(l) : l \in ProductLists}

\* schemas.TaskCreate
TaskCreate(status_close, shift_start, shift_end, batch_number, brigade, work_center, product) ==
    [status_close |-> status_close, task_description |-> "D1", shift |-> "S1",
     shift_start |-> shift_start, shift_end |-> shift_end,
     batch_number |-> batch_number, batch_date |-> 1,
     brigade |-> brigade, work_center |-> work_center, product |-> product]

\* schemas.TaskUpdate after model_dump(exclude_unset=True): keys are the fields
\* the request set; a field that is not a key holds its default.
TaskUpdate(keys, status_close, shift_start, shift_end, products, brigade) ==
    [keys |-> keys, status_close |-> status_close, closed_date |-> NoTime,
     task_description |-> "D1", shift |-> "S1",
     shift_start |-> shift_start, shift_end |-> shift_end,
     products |-> products, brigade |-> brigade, work_center |-> None]

\* The entries of POST /task/products.
BatchDateStrs == {"2023-01-01", "2023-01-02", "not-a-date"}

ProductBatchEntries ==
    [ekn_code : EknCodes, batch_number : BatchNumbers, batch_date : BatchDateStrs]

(***************************************************************************)
(* The requests.  Each action serves one request on a new session and      *)
(* closes it.                                                              *)
(***************************************************************************)
SessionIds == 1..MaxSessions

\* A session no call has used yet.
IdleSession ==
    [pc |-> "idle", table |-> None, name |-> None, found |-> NoId, id |-> NoId,
     pending |-> {}]

Tick == now + 1

Init ==
    /\ db = EmptyStore
    /\ now = 0
    /\ last = [op |-> "none", repo_exc |-> None, svc_exc |-> None, http |-> 0,
               ret |-> None, id |-> NoId, tasks |-> <<>>, added |-> <<>>, in_tx |-> FALSE]
    /\ aggLog = {}
    /\ sessions = [sid \in SessionIds |-> IdleSession]

ProductCount(product) == IF product = Nothing THEN 0 ELSE Len(product[1])

\* POST /task/
CreateTask(task) ==
    /\ Len(db.tasks) < MaxTasks
    /\ db.product_seq + ProductCount(task.product) <= MaxProductId
    /\ LET r == TaskService_create(AsyncSessionLocal(db), task)
       IN /\ db' = get_db(r.s)
          /\ last' = [op |-> "create_task", repo_exc |-> r.cause,
                      svc_exc |-> r.exc, http |-> TaskRouter_create_task(r), ret |-> None,
                      id |-> NoId, tasks |-> <<>>, added |-> <<>>, in_tx |-> r.s.in_tx]
    /\ UNCHANGED <<now, aggLog, sessions>>

RECURSIVE ProductCountAll(_, _)
ProductCountAll(tasks, i) ==
    IF i > Len(tasks) THEN 0
    ELSE ProductCount(tasks[i].product) + ProductCountAll(tasks, i + 1)

\* POST /tasks/
CreateTasks(tasks) ==
    /\ Len(db.tasks) + Len(tasks) <= MaxTasks
    /\ db.product_seq + ProductCountAll(tasks, 1) <= MaxProductId
    /\ LET r == TaskService_create_batch(AsyncSessionLocal(db), tasks)
       IN /\ db' = get_db(r.s)
          /\ last' = [op |-> "create_tasks", repo_exc |-> r.cause,
                      svc_exc |-> r.exc, http |-> TaskRouter_create_tasks(r), ret |-> None,
                      id |-> NoId, tasks |-> <<>>, added |-> <<>>, in_tx |-> r.s.in_tx]
    /\ UNCHANGED <<now, aggLog, sessions>>

\* TaskService.update reads the clock when the request closes the task.
UpdateReadsClock(task_update) ==
    "status_close" \in task_update.keys /\ task_update.status_close

\* PUT /task/{task_id}
UpdateTask(task_id, task_update) ==
    /\ UpdateReadsClock(task_update) => now < MaxTime
    /\ "products" \in task_update.keys =>
           db.product_seq + Len(task_update.products) <= MaxProductId
    /\ LET r == TaskService_update(AsyncSessionLocal(db), task_id, task_update, Tick)
       IN /\ db' = get_db(r.s)
          /\ last' = [op |-> "update_task", repo_exc |-> r.cause, svc_exc |-> r.exc,
                      http |-> TaskRouter_update_task(r), ret |-> None,
                      id |-> NoId, tasks |-> <<>>, added |-> <<>>, in_tx |-> r.s.in_tx]
          /\ now' = IF task_id \in DOMAIN db.tasks /\ UpdateReadsClock(task_update)
                    THEN Tick ELSE now
    /\ UNCHANGED <<aggLog, sessions>>

\* POST /task/products
AddProductsToTasks(products_data) ==
    /\ db.product_seq + Len(products_data) <= MaxProductId
    /\ LET r == ProductService_add_products_to_batches(AsyncSessionLocal(db),
                                                       products_data)
       IN /\ db' = get_db(r.s)
          /\ last' = [op |-> "add_products_to_tasks", repo_exc |-> r.cause, svc_exc |-> r.exc,
                      http |-> TaskRouter_add_products_to_tasks(r), ret |-> None,
                      id |-> NoId, tasks |-> <<>>, added |-> IF r.exc = None THEN r.ret ELSE <<>>,
                      in_tx |-> r.s.in_tx]
    /\ UNCHANGED <<now, aggLog, sessions>>

\* POST /task/aggregate
AggregateTasks(task_id, ekn_code) ==
    LET r == ProductService_aggregate_product(AsyncSessionLocal(db), task_id,
                                              ekn_code, Tick)
    IN /\ r.exc = None => now < MaxTime
       /\ db' = get_db(r.s)
       /\ last' = [op |-> "aggregate_tasks", repo_exc |-> r.cause, svc_exc |-> r.exc,
                   http |-> TaskRouter_aggregate_tasks(r),
                   ret |-> IF r.exc = None THEN r.ret ELSE None,
                   id |-> NoId, tasks |-> <<>>, added |-> <<>>, in_tx |-> r.s.in_tx]
       /\ now' = IF r.exc = None THEN Tick ELSE now
       /\ aggLog' = IF r.exc = None
                    THEN aggLog \cup {[task_id |-> task_id, ekn_code |-> ekn_code,
                                       at |-> Tick]}
                    ELSE aggLog
       /\ UNCHANGED sessions

(***************************************************************************)
(* Spec: the requests of the product life cycle (creation with products,   *)
(* product replacement, batch assignment, aggregation) on well-formed      *)
(* tasks.                                                                  *)
(***************************************************************************)
SpecTaskCreates ==
    {TaskCreate(FALSE, 1, 2, bn, "B1", "W1", pl) :
        bn \in BatchNumbers, pl \in OptionalProductLists}

SpecTaskUpdates ==
    {TaskUpdate({"products"}, FALSE, 1, 2, pl, None) :
        pl \in {<<>>} \cup {<<p>> : p \in {q \in ProductCreates : ~q.is_aggregated}}}
    \cup {TaskUpdate({"brigade"}, FALSE, 1, 2, <<>>, "B2")}

Next ==
    \/ \E task \in SpecTaskCreates : CreateTask(task)
    \/ \E task \in SpecTaskCreates : CreateTasks(<<task>>)
    \/ \E task_id \in TaskIds, task_update \in SpecTaskUpdates :
           UpdateTask(task_id, task_update)
    \/ \E entry \in ProductBatchEntries : AddProductsToTasks(<<entry>>)
    \/ \E task_id \in TaskIds, ekn_code \in EknCodes :
           AggregateTasks(task_id, ekn_code)

Spec == Init /\ [][Next]_vars

(***************************************************************************)
(* SpecTasks: the requests of the task life cycle (shift times, closing    *)
(* and reopening, brigade change) on tasks whose only product arrives by batch assignment.           *)
(***************************************************************************)
TasksTaskCreates ==
    {TaskCreate(sc, ss, 2, 1, "B1", "W1", pl) :
        sc \in BOOLEAN, ss \in ShiftTimes, pl \in {Nothing, Some(<<>>)}}

TasksBatches ==
    {<<>>} \cup {<<task>> : task \in TasksTaskCreates}
    \cup {<<TaskCreate(FALSE, 1, 2, 1, "B1", "W1", Nothing), task>> :
             task \in {t \in TasksTaskCreates : ~t.status_close /\ t.product = Nothing}}

TasksKeySets ==
    SUBSET {"status_close", "shift_start"}
    \cup {{"brigade", "status_close"}}

TasksTaskUpdates ==
    {TaskUpdate(keys,
                IF "status_close" \in keys THEN sc ELSE FALSE,
                IF "shift_start" \in keys THEN 2 ELSE 1,
                2,
                <<>>,
                IF "brigade" \in keys THEN "B2" ELSE None) :
        keys \in TasksKeySets, sc \in BOOLEAN}

TasksBatchEntries ==
    [ekn_code : {"E1"}, batch_number : {1}, batch_date : {"2023-01-01"}]

NextTasks ==
    \/ \E task \in TasksTaskCreates : CreateTask(task)
    \/ \E tasks \in TasksBatches : CreateTasks(tasks)
    \/ \E task_id \in TaskIds, task_update \in TasksTaskUpdates :
           UpdateTask(task_id, task_update)
    \/ \E entry \in TasksBatchEntries : AddProductsToTasks(<<entry>>)
    \/ \E task_id \in TaskIds : AggregateTasks(task_id, "E1")

SpecTasks == Init /\ [][NextTasks]_vars

(***************************************************************************)
(* Properties of aggregation, checked under Spec.                          *)
(***************************************************************************)
\* The aggregation requests that have succeeded for (task_id, ekn_code).
Aggregations(task_id, ekn_code) ==
    {l \in aggLog : l.task_id = task_id /\ l.ekn_code = ekn_code}

\* C1: once aggregate_product(task_id, ekn_code) has succeeded, every later call
\* with the same arguments fails with ProductAlreadyAggregated, and the product's
\* aggregated_at still equals the timestamp the first success wrote.
C1_RepeatAggregateRejected ==
    [][\A task_id \in TaskIds, ekn_code \in EknCodes :
          (AggregateTasks(task_id, ekn_code) /\ Aggregations(task_id, ekn_code) # {})
          => /\ last'.repo_exc = "ProductAlreadyAggregatedException"
             /\ \E p \in db'.products :
                   /\ p.ekn_code = ekn_code
                   /\ p.aggregated_at =
                          Min({l.at : l \in Aggregations(task_id, ekn_code)})]_vars

\* The exception and the status the aggregation of ekn_code for task_id is to
\* fail with in store d, by the first cause that applies.
ExpectedAggregateFailure(d, task_id, ekn_code) ==
    IF ~EknTaken(d, ekn_code)
    THEN [exc |-> "ProductNotFoundException", http |-> 404]
    ELSE IF \E p \in d.products : p.ekn_code = ekn_code /\ p.task_id # task_id
    THEN [exc |-> "ProductWrongBatchException", http |-> 400]
    ELSE [exc |-> "ProductAlreadyAggregatedException", http |-> 400]

\* C2: a failing aggregation is reported by its cause, in the order not found
\* (404), wrong batch (400), already aggregated (400), and changes no row.
C2_AggregateFailureByCause ==
    [][\A task_id \in TaskIds, ekn_code \in EknCodes :
          (AggregateTasks(task_id, ekn_code) /\ last'.http # 200)
          => /\ last'.repo_exc = ExpectedAggregateFailure(db, task_id, ekn_code).exc
             /\ last'.http = ExpectedAggregateFailure(db, task_id, ekn_code).http
             /\ db' = db]_vars

\* The product aggregate_product is called for has the requested task and is
\* not aggregated.
Aggregable(task_id, ekn_code) ==
    \E p \in db.products :
        p.ekn_code = ekn_code /\ p.task_id = task_id /\ ~p.is_aggregated

\* C3: when the product with ekn_code exists, has the requested task_id and is
\* not aggregated, aggregate_product sets is_aggregated and aggregated_at = the
\* current time on that product, commits and returns the ekn_code; the product's
\* task_id, every other product and every task stay as they were.
C3_AggregateSucceeds ==
    [][\A task_id \in TaskIds, ekn_code \in EknCodes :
          (AggregateTasks(task_id, ekn_code) /\ Aggregable(task_id, ekn_code))
          => LET p == CHOOSE q \in db.products : q.ekn_code = ekn_code
             IN /\ last'.http = 200
                /\ last'.ret = ekn_code
                /\ now' = Tick
                /\ db'.products =
                       (db.products \ {p}) \cup
                       {[p EXCEPT !.is_aggregated = TRUE, !.aggregated_at = now']}
                /\ db'.tasks = db.tasks
                /\ db'.brigades = db.brigades
                /\ db'.work_centers = db.work_centers]_vars

\* C3's case: an aggregation has just succeeded on one of two stored products.
C3_Witness ==
    /\ last.op = "aggregate_tasks"
    /\ last.http = 200
    /\ \E p \in db.products :
          p.ekn_code = last.ret /\ p.is_aggregated /\ p.aggregated_at = now
    /\ \E q \in db.products : q.ekn_code # last.ret /\ ~q.is_aggregated

\* C4: every stored product has is_aggregated true exactly when aggregated_at
\* is set.
C4_AggregatedIffTimestamp ==
    \A p \in db.products : p.is_aggregated <=> (p.aggregated_at # NoTime)

\* C5: every product an aggregation request aggregated has the task_id of that
\* request.
C5_AggregatedKeepsTask ==
    \A p \in db.products :
        (p.is_aggregated /\ p.aggregated_at # NoTime)
        => \E l \in aggLog :
              /\ l.ekn_code = p.ekn_code
              /\ l.at = p.aggregated_at
              /\ l.task_id = p.task_id

\* C6: once the product of an ekn_code has been aggregated, no stored product
\* with that ekn_code is unaggregated.
C6_AggregationOneWay ==
    \A l \in aggLog :
        ~\E p \in db.products : p.ekn_code = l.ekn_code /\ ~p.is_aggregated

(***************************************************************************)
(* Properties of the task life cycle, checked under SpecTasks.             *)
(***************************************************************************)
\* C7: a creation request with shift_start >= shift_end, single or as an entry
\* of a batch, fails with a validation error and persists no row; one such
\* entry rejects its whole batch.
C7_InvalidShiftRejected ==
    [][/\ \A task \in TasksTaskCreates :
             (CreateTask(task) /\ ShiftInvalid(task))
             => (last'.svc_exc = "ValidationError" /\ db' = db)
       /\ \A tasks \in TasksBatches :
             (CreateTasks(tasks) /\ \E i \in DOMAIN tasks : ShiftInvalid(tasks[i]))
             => (last'.svc_exc = "ValidationError" /\ db' = db)]_vars

\* C8: every stored task has shift_start < shift_end.
C8_ShiftOrdered ==
    \A i \in DOMAIN db.tasks : db.tasks[i].shift_start < db.tasks[i].shift_end

\* closed_date is set on exactly the stored tasks whose status_close is true.
ClosedDateIffClosed ==
    \A i \in DOMAIN db.tasks :
        (db.tasks[i].closed_date # NoTime) <=> db.tasks[i].status_close

\* closed_date of a stored task changes only in a step that changes its
\* status_close.
ClosedDateFollowsStatus ==
    \A i \in DOMAIN db.tasks :
        (i \in DOMAIN db'.tasks /\ db'.tasks[i].closed_date # db.tasks[i].closed_date)
        => db'.tasks[i].status_close # db.tasks[i].status_close

\* C9: every stored task has closed_date set if and only if status_close is
\* true, and closed_date changes value only in a step in which status_close
\* changes value.
C9_ClosedDateTracksStatus ==
    []ClosedDateIffClosed /\ [][ClosedDateFollowsStatus]_vars

\* C10: an update of an existing task that is stored sets closed_date to the
\* current time when it supplies status_close = true and clears it when it
\* supplies status_close = false; an update that does not supply status_close
\* leaves closed_date and status_close as they were.
C10_UpdateClosedDate ==
    [][\A task_id \in TaskIds, task_update \in TasksTaskUpdates :
          (UpdateTask(task_id, task_update) /\ task_id \in DOMAIN db.tasks)
          => /\ task_id \in DOMAIN db'.tasks
             /\ ("status_close" \in task_update.keys /\ last'.http = 200)
                => /\ db'.tasks[task_id].status_close = task_update.status_close
                   /\ db'.tasks[task_id].closed_date =
                          IF task_update.status_close THEN now' ELSE NoTime
                   /\ task_update.status_close => now' = Tick
             /\ "status_close" \notin task_update.keys
                => /\ db'.tasks[task_id].closed_date = db.tasks[task_id].closed_date
                   /\ db'.tasks[task_id].status_close = db.tasks[task_id].status_close]_vars

\* C10's case: an update has just closed task 2, stamping the current time,
\* after an earlier update closed task 1.
C10_Witness ==
    /\ last.op = "update_task"
    /\ last.http = 200
    /\ Len(db.tasks) = 2
    /\ db.tasks[2].status_close
    /\ db.tasks[2].closed_date = now
    /\ db.tasks[1].closed_date # NoTime
    /\ db.tasks[1].closed_date < now

(***************************************************************************)
(* SpecRelations: the brigade and work center repositories called one call *)
(* after another, each on its own session, next to batch creation, which   *)
(* calls them through its name caches.                                     *)
(***************************************************************************)
RelationNames == {"B1", "B2", "B3"}

\* BrigadeRepository.get_or_create_brigade(name) on a new session.
GetOrCreateBrigade(name) ==
    /\ LET r == get_or_create_brigade(AsyncSessionLocal(db), name)
       IN /\ db' = get_db(r.s)
          /\ last' = [op |-> "get_or_create_brigade", repo_exc |-> r.exc,
                      svc_exc |-> None, http |-> 0, ret |-> None,
                      id |-> r.ret, tasks |-> <<>>, added |-> <<>>, in_tx |-> r.s.in_tx]
    /\ UNCHANGED <<now, aggLog, sessions>>

\* WorkCenterRepository.get_or_create_work_center(name) on a new session.
GetOrCreateWorkCenter(name) ==
    /\ LET r == get_or_create_work_center(AsyncSessionLocal(db), name)
       IN /\ db' = get_db(r.s)
          /\ last' = [op |-> "get_or_create_work_center", repo_exc |-> r.exc,
                      svc_exc |-> None, http |-> 0, ret |-> None,
                      id |-> r.ret, tasks |-> <<>>, added |-> <<>>, in_tx |-> r.s.in_tx]
    /\ UNCHANGED <<now, aggLog, sessions>>

\* Batches of two tasks that name the same brigade and work center.
RelationsBatches ==
    {<<TaskCreate(FALSE, 1, 2, 1, name, name, Nothing),
       TaskCreate(FALSE, 1, 2, 1, name, name, Nothing)>> : name \in {"B1", "B2"}}

NextRelations ==
    \/ \E name \in RelationNames : GetOrCreateBrigade(name)
    \/ \E name \in RelationNames : GetOrCreateWorkCenter(name)
    \/ \E tasks \in RelationsBatches : CreateTasks(tasks)

SpecRelations == Init /\ [][NextRelations]_vars

\* The ids of the rows named name.
IdsByName(rows, name) == {i \in DOMAIN rows : rows[i] = name}

\* What a get_or_create call for name is to do to rows, returning id.
GetOrCreateOnce(rows, rows_after, name, id) ==
    /\ IdsByName(rows_after, name) = {id}
    /\ IF IdsByName(rows, name) # {}
       THEN rows_after = rows
       ELSE rows_after = Append(rows, name)

\* C11: after each of any number of sequential get_or_create calls with one
\* name, on brigades and on work centers, exactly one row has that name and the
\* call returned its id; a call that finds the name inserts nothing, so every
\* call returns the id the first one inserted.
C11_GetOrCreateIdempotent ==
    [][\A name \in RelationNames :
          /\ GetOrCreateBrigade(name)
             => /\ GetOrCreateOnce(db.brigades, db'.brigades, name, last'.id)
                /\ db'.work_centers = db.work_centers
          /\ GetOrCreateWorkCenter(name)
             => /\ GetOrCreateOnce(db.work_centers, db'.work_centers, name, last'.id)
                /\ db'.brigades = db.brigades]_vars

\* C11's case: a repeated call has just returned the brigade inserted second,
\* after a third one was inserted.
C11_Witness ==
    /\ last.op = "get_or_create_brigade"
    /\ last.id = 2
    /\ Len(db.brigades) = 3
    /\ Len(db.work_centers) >= 2

(***************************************************************************)
(* SpecRace: get_or_create calls of several sessions, interleaved          *)
(* statement by statement.  A row a session has flushed is in its table    *)
(* from then on and is hidden from the other sessions until the session    *)
(* commits (READ COMMITTED).                                               *)
(***************************************************************************)
RaceTables == {"brigade", "work_centers"}

RaceNames == {"B1", "B2"}

Rows(d, table) == IF table = "brigade" THEN d.brigades ELSE d.work_centers

\* The ids of table that other sessions inserted and have not committed.
HiddenFrom(sid, table) ==
    UNION {sessions[o].pending :
              o \in {x \in SessionIds \ {sid} : sessions[x].table = table}}

\* select(...).where(name == name) ... scalars().first() as session sid sees it.
SessionFind(sid, table, name) ==
    LET ids == IdsByName(Rows(db, table), name) \ HiddenFrom(sid, table)
    IN IF ids = {} THEN NoId ELSE Min(ids)

\* self.db.add(Brigade(name=name)); flush: the name column has no unique
\* constraint, the INSERT is accepted whatever the table holds.
flush_insert_unique(rows, name) ==
    IF IdsByName(rows, name) # {} THEN rows ELSE Append(rows, name)

flush_insert(rows, name) == Append(rows, name)

\* async with self._transaction(): ... result = await self.db.execute(query)
GetOrCreateSelect(sid, table, name) ==
    /\ sessions[sid].pc = "idle"
    /\ sessions' = [sessions EXCEPT ![sid] =
                       [pc |-> "selected", table |-> table, name |-> name,
                        found |-> SessionFind(sid, table, name), id |-> NoId,
                        pending |-> {}]]
    /\ UNCHANGED <<db, now, last, aggLog>>

\* if not brigade: add, flush, refresh; return brigade
GetOrCreateFlush(sid) ==
    LET se == sessions[sid]
        rows == Rows(db, se.table)
        id == Len(rows) + 1
    IN /\ se.pc = "selected"
       /\ IF se.found # NoId
          THEN /\ sessions' = [sessions EXCEPT ![sid].pc = "returned",
                                               ![sid].id = se.found]
               /\ UNCHANGED db
          ELSE /\ sessions' = [sessions EXCEPT ![sid].pc = "returned",
                                               ![sid].id = id,
                                               ![sid].pending = {id}]
               /\ db' = IF se.table = "brigade"
                        THEN [db EXCEPT !.brigades = flush_insert(rows, se.name)]
                        ELSE [db EXCEPT !.work_centers = flush_insert(rows, se.name)]
       /\ UNCHANGED <<now, last, aggLog>>

\* The exit of _transaction: commit.
GetOrCreateCommit(sid) ==
    /\ sessions[sid].pc = "returned"
    /\ sessions' = [sessions EXCEPT ![sid].pc = "done", ![sid].pending = {}]
    /\ UNCHANGED <<db, now, last, aggLog>>

NextRace ==
    \/ \E sid \in SessionIds, table \in RaceTables, name \in RaceNames :
           GetOrCreateSelect(sid, table, name)
    \/ \E sid \in SessionIds : GetOrCreateFlush(sid)
    \/ \E sid \in SessionIds : GetOrCreateCommit(sid)

SpecRace == Init /\ [][NextRace]_vars

\* Sessions a and b have both finished a get_or_create of the same name on the
\* same table, and both observed the name as absent.
BothInserted(a, b) ==
    /\ a # b
    /\ sessions[a].pc = "done" /\ sessions[b].pc = "done"
    /\ sessions[a].table = sessions[b].table
    /\ sessions[a].name = sessions[b].name
    /\ sessions[a].found = NoId /\ sessions[b].found = NoId

\* C12: when two concurrent get_or_create calls with the same new name both
\* observe the name as absent, both insert and both commit: the table then
\* holds two rows of that name, one returned to each call.
C12_ConcurrentDuplicates ==
    \A a, b \in SessionIds :
        BothInserted(a, b)
        => LET rows == Rows(db, sessions[a].table)
           IN /\ sessions[a].id # sessions[b].id
              /\ {sessions[a].id, sessions[b].id} \subseteq
                     IdsByName(rows, sessions[a].name)

\* C12's case: two sessions raced on one new brigade name and the committed
\* table holds two brigades of that name.
C12_Witness ==
    /\ \E a, b \in SessionIds : BothInserted(a, b) /\ sessions[a].table = "brigade"
    /\ \A sid \in SessionIds : sessions[sid].pending = {}
    /\ \E name \in RaceNames : Cardinality(IdsByName(db.brigades, name)) = 2

(***************************************************************************)
(* SpecAtomic: requests that fail part-way (a product code that is taken,  *)
(* a missing product list, a new brigade name in an update, an empty       *)
(* product list) among requests that succeed.                              *)
(***************************************************************************)
AtomicProduct(ekn_code) ==
    [nomenclature |-> DefaultNomenclature, ekn_code |-> ekn_code,
     is_aggregated |-> FALSE]

AtomicTaskCreates ==
    {TaskCreate(FALSE, 1, 2, 1, b, "W1", pl) :
        b \in {"B1", "B2"},
        pl \in {Nothing, Some(<<>>), Some(<<AtomicProduct("E1")>>)}}

AtomicBatches ==
    {<<TaskCreate(FALSE, 1, 2, 1, "B1", "W1", Some(<<AtomicProduct("E1")>>))>>,
     <<TaskCreate(FALSE, 1, 2, 1, "B1", "W1", Nothing),
       TaskCreate(FALSE, 1, 2, 1, "B2", "W2", Some(<<AtomicProduct("E1")>>))>>,
     <<TaskCreate(FALSE, 1, 2, 1, "B1", "W1", Some(<<AtomicProduct("E2")>>)),
       TaskCreate(FALSE, 1, 2, 1, "B2", "W2", Some(<<AtomicProduct("E2")>>))>>}

AtomicTaskUpdates ==
    {TaskUpdate({"products"}, FALSE, 1, 2, pl, None) :
        pl \in {<<>>, <<AtomicProduct("E1")>>, <<AtomicProduct("E2")>>}}
    \cup {TaskUpdate({"brigade", "shift_start"}, FALSE, 2, 2, <<>>, "B2")}

AtomicBatchEntries ==
    {<<>>, <<[ekn_code |-> "E2", batch_number |-> 1, batch_date |-> "2023-01-01"]>>}

NextAtomic ==
    \/ \E task \in AtomicTaskCreates : CreateTask(task)
    \/ \E tasks \in AtomicBatches : CreateTasks(tasks)
    \/ \E task_id \in TaskIds, task_update \in AtomicTaskUpdates :
           UpdateTask(task_id, task_update)
    \/ \E products_data \in AtomicBatchEntries : AddProductsToTasks(products_data)

SpecAtomic == Init /\ [][NextAtomic]_vars

\* Entry i of the batch tasks is in store d as a task that follows the first
\* `before` tasks, with its brigade, its work center and its products.
BatchEntryStored(d, before, tasks, i) ==
    /\ before + i \in DOMAIN d.tasks
    /\ LET t == d.tasks[before + i]
       IN /\ t.brigade_id \in DOMAIN d.brigades
          /\ d.brigades[t.brigade_id] = tasks[i].brigade
          /\ t.work_center_id \in DOMAIN d.work_centers
          /\ d.work_centers[t.work_center_id] = tasks[i].work_center
          /\ tasks[i].product # Nothing
             => \A j \in DOMAIN tasks[i].product[1] :
                   \E p \in d.products :
                      /\ p.ekn_code = tasks[i].product[1][j].ekn_code
                      /\ p.task_id = t.id

\* C13: create_tasks is atomic: either every brigade, work center, task and
\* nested product of the batch is committed, or, when a step fails, nothing of
\* the batch is in the committed store.
C13_CreateTasksAtomic ==
    [][\A tasks \in AtomicBatches :
          CreateTasks(tasks)
          => \/ /\ last'.svc_exc = None
                /\ Len(db'.tasks) = Len(db.tasks) + Len(tasks)
                /\ \A i \in DOMAIN tasks : BatchEntryStored(db', Len(db.tasks), tasks, i)
             \/ /\ last'.svc_exc # None
                /\ db' = db]_vars

\* C13's case: a batch of two has just failed at its product insert, after its
\* tasks were flushed, and nothing of it is stored.
C13_Witness ==
    /\ last.op = "create_tasks"
    /\ last.repo_exc = "TypeError"
    /\ Len(db.tasks) = 0
    /\ db.brigades = <<>>

\* C14: a create_task, update_task or add_products_to_batches request that
\* fails leaves the committed store as it was.
C14_FailureLeavesStore ==
    [][/\ \A task \in AtomicTaskCreates :
             (CreateTask(task) /\ last'.svc_exc # None) => db' = db
       /\ \A task_id \in TaskIds, task_update \in AtomicTaskUpdates :
             (UpdateTask(task_id, task_update) /\ last'.svc_exc # None) => db' = db
       /\ \A products_data \in AtomicBatchEntries :
             (AddProductsToTasks(products_data) /\ last'.svc_exc # None)
             => db' = db]_vars

\* C14's case: an update of a stored task has just failed in the repository
\* while the store holds a product of that task.
C14_Witness ==
    /\ last.op = "update_task"
    /\ last.repo_exc = "TypeError"
    /\ \E p \in db.products : p.task_id \in DOMAIN db.tasks

(***************************************************************************)
(* SpecReads: the reading requests (one task by id, a filtered page) and   *)
(* updates, with ids of stored and of absent tasks.                        *)
(***************************************************************************)
\* GET /task/{task_id}
ReadTask(task_id) ==
    /\ LET r == TaskService_get(AsyncSessionLocal(db), task_id)
       IN /\ db' = get_db(r.s)
          /\ last' = [op |-> "read_task", repo_exc |-> r.cause, svc_exc |-> r.exc,
                      http |-> TaskRouter_read_task(r), ret |-> None,
                      id |-> IF r.exc = None THEN r.ret ELSE NoId,
                      tasks |-> <<>>, added |-> <<>>, in_tx |-> r.s.in_tx]
    /\ UNCHANGED <<now, aggLog, sessions>>

\* GET /tasks/
ReadFilterTasks(filters, skip, limit) ==
    /\ LET r == TaskService_get_filtered(AsyncSessionLocal(db), filters, skip, limit)
       IN /\ db' = get_db(r.s)
          /\ last' = [op |-> "read_filter_tasks", repo_exc |-> r.cause,
                      svc_exc |-> r.exc, http |-> TaskRouter_read_filter_tasks(r),
                      ret |-> None, id |-> NoId,
                      tasks |-> IF r.exc = None THEN r.ret ELSE <<>>,
                      added |-> <<>>, in_tx |-> r.s.in_tx]
    /\ UNCHANGED <<now, aggLog, sessions>>

\* The ids a request names: those of the tasks there can be, and one more.
RequestTaskIds == 1..(MaxTasks + 1)

NoFilters ==
    [status_close |-> Nothing, batch_number |-> Nothing, batch_date |-> Nothing,
     work_center_id |-> Nothing, brigade_id |-> Nothing,
     shift_start_from |-> Nothing, shift_start_to |-> Nothing]

ReadsFilters ==
    {NoFilters, [NoFilters EXCEPT !.status_close = Some(TRUE)],
     [NoFilters EXCEPT !.batch_number = Some(2)]}

ReadsSkips == {-1, 0, 1}

ReadsLimits == {0, 1, 1000, 1001}

ReadsBatches ==
    {<<TaskCreate(sc, 1, 2, bn, "B1", "W1", Nothing)>> :
        sc \in BOOLEAN, bn \in BatchNumbers}

ReadsTaskUpdates ==
    {TaskUpdate({}, FALSE, 1, 2, <<>>, None),
     TaskUpdate({"shift_start"}, FALSE, 2, 2, <<>>, None)}

NextReads ==
    \/ \E tasks \in ReadsBatches : CreateTasks(tasks)
    \/ \E task_id \in RequestTaskIds, task_update \in ReadsTaskUpdates :
           UpdateTask(task_id, task_update)
    \/ \E task_id \in RequestTaskIds : ReadTask(task_id)
    \/ \E filters \in ReadsFilters, skip \in ReadsSkips, limit \in ReadsLimits :
           ReadFilterTasks(filters, skip, limit)

SpecReads == Init /\ [][NextReads]_vars

\* C15: updating a task id that does not exist fails with TaskNotFound, which
\* PUT /task/{id} answers with 404, and changes nothing in the store; GET
\* /task/{id} of an absent id answers 404 too.
C15_AbsentTaskNotFound ==
    [][\A task_id \in RequestTaskIds :
          task_id \notin DOMAIN db.tasks
          => /\ \A task_update \in ReadsTaskUpdates :
                   UpdateTask(task_id, task_update)
                   => /\ last'.svc_exc = "TaskNotFoundException"
                      /\ last'.http = 404
                      /\ db' = db
             /\ ReadTask(task_id)
                => /\ last'.svc_exc = "TaskNotFoundException"
                   /\ last'.http = 404
                   /\ db' = db]_vars

\* C15's case: an update has just named an id above those of the two stored
\* tasks.
C15_Witness ==
    /\ last.op = "update_task"
    /\ last.http = 404
    /\ Len(db.tasks) = 2

\* C20: get_filtered fails with ValidationError, before any query is sent,
\* exactly when limit > 1000 or offset < 0; otherwise it sends the query.
C20_PaginationValidated ==
    [][\A filters \in ReadsFilters, skip \in ReadsSkips, limit \in ReadsLimits :
          ReadFilterTasks(filters, skip, limit)
          => IF limit > 1000 \/ skip < 0
             THEN last'.svc_exc = "ValidationError" /\ ~last'.in_tx
             ELSE last'.svc_exc = None /\ last'.in_tx]_vars

\* C20's case: a page of the largest accepted limit has just been read from a
\* store of two tasks.
C20_Witness ==
    /\ last.op = "read_filter_tasks"
    /\ last.http = 200
    /\ last.in_tx
    /\ Len(last.tasks) = 2

(***************************************************************************)
(* SpecBatches: product lists of up to two entries, in updates (product    *)
(* replacement) and in POST /task/products (batch assignment), on tasks of *)
(* two batches.                                                            *)
(***************************************************************************)
BatchesBatches ==
    {<<TaskCreate(FALSE, 1, 2, bn, "B1", "W1", pl)>> :
        bn \in BatchNumbers, pl \in {Nothing, Some(<<AtomicProduct("E1")>>)}}

BatchesProductLists ==
    {<<>>, <<AtomicProduct("E1")>>, <<AtomicProduct("E2")>>,
     <<[AtomicProduct("E2") EXCEPT !.is_aggregated = TRUE]>>,
     <<AtomicProduct("E1"), AtomicProduct("E2")>>,
     <<AtomicProduct("E1"), AtomicProduct("E1")>>}

BatchesTaskUpdates ==
    {TaskUpdate({"products"}, FALSE, 1, 2, pl, None) : pl \in BatchesProductLists}

BatchesEntries ==
    [ekn_code : EknCodes, batch_number : BatchNumbers,
     batch_date : {"2023-01-01", "not-a-date"}]

BatchesEntryLists ==
    {<<e>> : e \in BatchesEntries} \cup {<<e, f>> : e \in BatchesEntries, f \in BatchesEntries}

NextBatches ==
    \/ \E tasks \in BatchesBatches : CreateTasks(tasks)
    \/ \E task_id \in TaskIds, task_update \in BatchesTaskUpdates :
           UpdateTask(task_id, task_update)
    \/ \E products_data \in BatchesEntryLists : AddProductsToTasks(products_data)

SpecBatches == Init /\ [][NextBatches]_vars

ProductsOf(d, task_id) == {p \in d.products : p.task_id = task_id}

ProductsNotOf(d, task_id) == {p \in d.products : p.task_id # task_id}

\* C16: after update_task_products(task_id, L) the products of task_id are
\* exactly the entries of L, as new unaggregated rows (none when L is empty,
\* every earlier product of the task gone), and the products of every other
\* task are as they were.
C16_ProductsReplaced ==
    [][\A task_id \in TaskIds, task_update \in BatchesTaskUpdates :
          (UpdateTask(task_id, task_update) /\ last'.svc_exc = None)
          => LET L == task_update.products
             IN /\ Cardinality(ProductsOf(db', task_id)) = Len(L)
                /\ \A i \in DOMAIN L :
                      \E p \in ProductsOf(db', task_id) :
                         /\ p.ekn_code = L[i].ekn_code
                         /\ p.nomenclature = L[i].nomenclature
                /\ \A p \in ProductsOf(db', task_id) :
                      /\ p \notin db.products
                      /\ p.id > db.product_seq
                      /\ ~p.is_aggregated
                      /\ p.aggregated_at = NoTime
                /\ ProductsNotOf(db', task_id) = ProductsNotOf(db, task_id)]_vars

\* C16's case: an update has just replaced the product of task 2 by another
\* while task 1 keeps its own.
C16_Witness ==
    /\ last.op = "update_task"
    /\ last.http = 200
    /\ \E p \in db.products : p.task_id = 1 /\ p.ekn_code = "E1" /\ p.id = 1
    /\ \E p \in db.products : p.task_id = 2 /\ p.ekn_code = "E2"

\* The products a request created: those with an id above the ids given before.
CreatedSince(d_before, d_after) ==
    {p \in d_after.products : p.id > d_before.product_seq}

\* C18: add_products_to_batches returns the products it created in the call,
\* one element for each, and no product that it only reassigned.
C18_ReturnsCreated ==
    [][\A products_data \in BatchesEntryLists :
          (AddProductsToTasks(products_data) /\ last'.svc_exc = None)
          => /\ Len(last'.added) = Cardinality(CreatedSince(db, db'))
             /\ \A p \in CreatedSince(db, db') :
                   \E i \in DOMAIN last'.added :
                      /\ last'.added[i].ekn_code = p.ekn_code
                      /\ last'.added[i].task_id = p.task_id]_vars

\* What one entry of POST /task/products is to do to store d.
EntryApplied(d, entry) ==
    LET task == FirstTaskOfBatch(d, entry.batch_number, fromisoformat(entry.batch_date))
    IN IF fromisoformat(entry.batch_date) = NoTime \/ task = NoId THEN d
       ELSE IF ~EknTaken(d, entry.ekn_code)
       THEN [d EXCEPT !.product_seq = @ + 1,
                      !.products = @ \cup
                          {[id |-> d.product_seq + 1,
                            nomenclature |-> DefaultNomenclature,
                            ekn_code |-> entry.ekn_code, is_aggregated |-> FALSE,
                            aggregated_at |-> NoTime, task_id |-> task]}]
       ELSE [d EXCEPT !.products =
                {IF p.ekn_code = entry.ekn_code THEN [p EXCEPT !.task_id = task]
                 ELSE p : p \in d.products}]

RECURSIVE EntriesApplied(_, _, _)
EntriesApplied(d, entries, i) ==
    IF i > Len(entries) THEN d
    ELSE EntriesApplied(EntryApplied(d, entries[i]), entries, i + 1)

\* C19: add_products_to_batches applies its entries one by one: an entry with
\* an unparseable date or without a matching task changes nothing and does not
\* fail the call, the others are applied; an entry whose task is found creates
\* an unaggregated product on it when the ekn_code is unknown and otherwise
\* moves the product to it, aggregated or not.
C19_EntriesIndependent ==
    [][\A products_data \in BatchesEntryLists :
          AddProductsToTasks(products_data)
          => /\ last'.svc_exc = None
             /\ last'.http = 200
             /\ db' = EntriesApplied(db, products_data, 1)]_vars

\* C19's case: POST /task/products has just answered 200 with the first product
\* of the store on the task of batch 2, a task of batch 1 being stored too.
C19_Witness ==
    /\ last.op = "add_products_to_tasks"
    /\ last.http = 200
    /\ Len(db.tasks) = 2
    /\ db.tasks[1].batch_number = 1
    /\ db.tasks[2].batch_number = 2
    /\ db.product_seq = 1
    /\ \E p \in db.products : p.id = 1 /\ p.task_id = 2

\* C17: an update that names a brigade succeeds: the name is resolved by
\* get-or-create, the task's brigade_id is set to the brigade of that name and
\* the change is committed.
C17_RelationsUpdated ==
    [][\A task_id \in TaskIds, task_update \in AtomicTaskUpdates :
          (/\ UpdateTask(task_id, task_update)
           /\ task_id \in DOMAIN db.tasks
           /\ "brigade" \in task_update.keys)
          => /\ last'.http = 200
             /\ db'.tasks[task_id].brigade_id \in DOMAIN db'.brigades
             /\ db'.brigades[db'.tasks[task_id].brigade_id] = task_update.brigade]_vars

(***************************************************************************)
(* SpecFilters: GET /tasks/ with one, two and no filters supplied, on      *)
(* tasks that differ in status_close, batch_number and shift_start.        *)
(***************************************************************************)
FiltersBatches ==
    {<<TaskCreate(sc, ss, 3, bn, "B1", "W1", Nothing)>> :
        sc \in BOOLEAN, ss \in ShiftTimes, bn \in BatchNumbers}

FiltersFilters ==
    {NoFilters,
     [NoFilters EXCEPT !.status_close = Some(FALSE), !.batch_number = Some(2)],
     [NoFilters EXCEPT !.status_close = Some(TRUE), !.brigade_id = Some(1)],
     [NoFilters EXCEPT !.batch_date = Some(1), !.work_center_id = Some(1),
                       !.shift_start_from = Some(2)],
     [NoFilters EXCEPT !.shift_start_from = Some(1), !.shift_start_to = Some(1)],
     [NoFilters EXCEPT !.brigade_id = Some(2)]}

FiltersSkips == {0, 1}

FiltersLimits == {0, 1, 2}

NextFilters ==
    \/ \E tasks \in FiltersBatches : CreateTasks(tasks)
    \/ \E filters \in FiltersFilters, skip \in FiltersSkips, limit \in FiltersLimits :
           ReadFilterTasks(filters, skip, limit)

SpecFilters == Init /\ [][NextFilters]_vars

\* C21: get_tasks_with_filters returns at most limit tasks, none of them twice,
\* and each returned task satisfies every filter that was supplied: equality
\* on status_close, batch_number, batch_date, work_center_id and brigade_id,
\* shift_start within the supplied bounds; a task that fails one supplied
\* filter is never returned, and with no filter and room in the page every
\* task is.
C21_FiltersConjoined ==
    [][\A filters \in FiltersFilters, skip \in FiltersSkips, limit \in FiltersLimits :
          ReadFilterTasks(filters, skip, limit)
          => LET page == last'.tasks
             IN /\ last'.http = 200
                /\ Len(page) <= limit
                /\ \A i, j \in DOMAIN page : page[i] = page[j] => i = j
                /\ \A i \in DOMAIN page :
                      /\ page[i] \in DOMAIN db.tasks
                      /\ LET task == db.tasks[page[i]]
                         IN /\ filters.status_close # Nothing
                               => task.status_close = filters.status_close[1]
                            /\ filters.batch_number # Nothing
                               => task.batch_number = filters.batch_number[1]
                            /\ filters.batch_date # Nothing
                               => task.batch_date = filters.batch_date[1]
                            /\ filters.work_center_id # Nothing
                               => task.work_center_id = filters.work_center_id[1]
                            /\ filters.brigade_id # Nothing
                               => task.brigade_id = filters.brigade_id[1]
                            /\ filters.shift_start_from # Nothing
                               => task.shift_start >= filters.shift_start_from[1]
                            /\ filters.shift_start_to # Nothing
                               => task.shift_start <= filters.shift_start_to[1]
                /\ (filters = NoFilters /\ skip = 0 /\ limit >= Len(db.tasks))
                   => Len(page) = Len(db.tasks)]_vars

\* C21's case: of an open task of batch 1 and a closed task of batch 2, a
\* filtered page has just returned the second alone.
C21_Witness ==
    /\ last.op = "read_filter_tasks"
    /\ last.tasks = <<2>>
    /\ Len(db.tasks) = 2
    /\ ~db.tasks[1].status_close /\ db.tasks[1].batch_number = 1
    /\ db.tasks[2].status_close /\ db.tasks[2].batch_number = 2

(***************************************************************************)
(* SpecProducts: the operations that insert Product rows from a list       *)
(* (creation with nested products, product replacement through PUT, and    *)
(* ProductRepository.update_task_products called with dicts that lack      *)
(* keys), with ekn codes that repeat.                                      *)
(***************************************************************************)
\* ProductRepository.update_task_products called on a session of its own.
UpdateTaskProducts(task_id, products_data) ==
    /\ task_id \in DOMAIN db.tasks
    /\ db.product_seq + Len(products_data) <= MaxProductId
    /\ LET r == update_task_products(AsyncSessionLocal(db), task_id, products_data)
       IN /\ db' = get_db(r.s)
          /\ last' = [op |-> "update_task_products", repo_exc |-> r.exc,
                      svc_exc |-> r.exc, http |-> 0, ret |-> None, id |-> NoId,
                      tasks |-> <<>>, added |-> <<>>, in_tx |-> r.s.in_tx]
    /\ UNCHANGED <<now, aggLog, sessions>>

ProductsProductLists ==
    {<<>>, <<AtomicProduct("E1")>>, <<AtomicProduct("E2")>>,
     <<AtomicProduct("E1"), AtomicProduct("E1")>>}

ProductsTaskCreates ==
    {TaskCreate(FALSE, 1, 2, 1, "B1", "W1", Some(pl)) : pl \in ProductsProductLists}

ProductsTaskUpdates ==
    {TaskUpdate({"products"}, FALSE, 1, 2, pl, None) : pl \in ProductsProductLists}

\* The dicts given to update_task_products; None stands for a key the dict lacks.
ProductsDicts ==
    {[nomenclature |-> "N1", ekn_code |-> "E1"],
     [nomenclature |-> "N1", ekn_code |-> None],
     [nomenclature |-> None, ekn_code |-> "E2"]}

ProductsDictLists ==
    {<<e>> : e \in ProductsDicts}
    \cup {<<[nomenclature |-> "N1", ekn_code |-> None], e>> : e \in ProductsDicts}

NextProducts ==
    \/ \E task \in ProductsTaskCreates : CreateTask(task)
    \/ \E task \in ProductsTaskCreates : CreateTasks(<<task>>)
    \/ \E task_id \in TaskIds, task_update \in ProductsTaskUpdates :
           UpdateTask(task_id, task_update)
    \/ \E task_id \in TaskIds, products_data \in ProductsDictLists :
           UpdateTaskProducts(task_id, products_data)

SpecProducts == Init /\ [][NextProducts]_vars

EknUnique(d) ==
    \A p, q \in d.products : (p.ekn_code # None /\ p.ekn_code = q.ekn_code) => p = q

\* The list would add a second product with an ekn_code: one that a product
\* kept in store d holds, or one the list holds twice.
WouldDuplicate(kept, product_list) ==
    \/ \E i \in DOMAIN product_list :
          \E p \in kept : p.ekn_code = product_list[i].ekn_code
    \/ \E i, j \in DOMAIN product_list :
          i < j /\ product_list[i].ekn_code = product_list[j].ekn_code

\* C22: in every reachable state no two Product rows share a non-null
\* ekn_code; a task creation with nested products or a product replacement
\* that would insert a second product with an existing ekn_code fails and
\* stores nothing.
C22_EknCodeUnique ==
    /\ []EknUnique(db)
    /\ [][/\ \A task \in ProductsTaskCreates :
                (/\ CreateTask(task) \/ CreateTasks(<<task>>)
                 /\ WouldDuplicate(db.products, task.product[1]))
                => last'.http = 400 /\ db' = db
          /\ \A task_id \in TaskIds, task_update \in ProductsTaskUpdates :
                (/\ UpdateTask(task_id, task_update)
                 /\ task_id \in DOMAIN db.tasks
                 /\ WouldDuplicate(ProductsNotOf(db, task_id), task_update.products))
                => last'.http = 400 /\ db' = db]_vars

\* C22's case: a creation has just been refused while the store holds one task
\* and its product E1, the only product ever inserted.
C22_Witness ==
    /\ last.op = "create_task"
    /\ last.http = 400
    /\ Len(db.tasks) = 1
    /\ db.product_seq = 1
    /\ \E p \in db.products : p.ekn_code = "E1" /\ p.task_id = 1

\* C27: update_task_products skips an entry that lacks nomenclature or
\* ekn_code: the call succeeds and the task's new rows are those of the
\* complete entries only.
C27_IncompleteEntrySkipped ==
    [][\A task_id \in TaskIds, products_data \in ProductsDictLists :
          UpdateTaskProducts(task_id, products_data)
          => /\ last'.repo_exc = None
             /\ Cardinality(ProductsOf(db', task_id))
                   = Cardinality({i \in DOMAIN products_data :
                                     /\ products_data[i].nomenclature # None
                                     /\ products_data[i].ekn_code # None})
             /\ \A p \in ProductsOf(db', task_id) :
                   p.nomenclature # None /\ p.ekn_code # None]_vars

\* The rows of rows_before are rows of rows_after, under the ids they had.
RowsKept(rows_before, rows_after) ==
    \A i \in DOMAIN rows_before : i \in DOMAIN rows_after

\* C23: no task, brigade or work center is ever deleted: at every step the
\* stored task ids, brigade ids and work center ids are kept, each brigade and
\* work center under its name.
C23_NeverDeleted ==
    [][/\ RowsKept(db.tasks, db'.tasks)
       /\ \A i \in DOMAIN db.tasks : db'.tasks[i].id = db.tasks[i].id
       /\ RowsKept(db.brigades, db'.brigades)
       /\ \A i \in DOMAIN db.brigades : db'.brigades[i] = db.brigades[i]
       /\ RowsKept(db.work_centers, db'.work_centers)
       /\ \A i \in DOMAIN db.work_centers :
             db'.work_centers[i] = db.work_centers[i]]_vars

\* C23's case: a product replacement has just succeeded on a store of two
\* tasks, two brigades and two work centers.
C23_Witness ==
    /\ last.op = "update_task"
    /\ last.http = 200
    /\ Len(db.tasks) = 2
    /\ Len(db.brigades) = 2
    /\ Len(db.work_centers) = 2
    /\ db.products # {}

(***************************************************************************)
(* SpecUpdates: PUT /task/{id} from its JSON body.  The body is validated  *)
(* into schemas.TaskUpdate before the handler runs.                        *)
(***************************************************************************)
\* The fields schemas.TaskUpdate declares.
TaskUpdateFields ==
    {"status_close", "task_description", "shift", "shift_start", "shift_end",
     "closed_status", "products", "brigade", "work_center"}

\* A JSON body of PUT /task/{id}: keys are the members it has.
TaskUpdateBody(keys, status_close, task_description, batch_number) ==
    [keys |-> keys, status_close |-> status_close,
     task_description |-> task_description, batch_number |-> batch_number]

\* TaskUpdate.model_validate(body): a member the schema does not declare is
\* ignored (pydantic's default for extra members), a declared field the body
\* lacks is unset.
TaskUpdate_model_validate(body) ==
    [keys |-> body.keys \cap TaskUpdateFields,
     status_close |-> body.status_close, closed_date |-> NoTime,
     task_description |-> body.task_description, shift |-> "S1",
     shift_start |-> 1, shift_end |-> 2,
     products |-> <<>>, brigade |-> None, work_center |-> None]

\* PUT /task/{task_id} with a JSON body
PutTask(task_id, body) ==
    /\ UpdateReadsClock(TaskUpdate_model_validate(body)) => now < MaxTime
    /\ LET task_update == TaskUpdate_model_validate(body)
           r == TaskService_update(AsyncSessionLocal(db), task_id, task_update, Tick)
       IN /\ db' = get_db(r.s)
          /\ last' = [op |-> "update_task", repo_exc |-> r.cause, svc_exc |-> r.exc,
                      http |-> TaskRouter_update_task(r), ret |-> None,
                      id |-> NoId, tasks |-> <<>>, added |-> <<>>, in_tx |-> r.s.in_tx]
          /\ now' = IF task_id \in DOMAIN db.tasks /\ UpdateReadsClock(task_update)
                    THEN Tick ELSE now
    /\ UNCHANGED <<aggLog, sessions>>

UpdatesBodies ==
    {TaskUpdateBody(keys, sc, "D2", 2) :
        keys \in SUBSET {"task_description", "status_close", "batch_number"},
        sc \in BOOLEAN}

UpdatesBatches ==
    {<<TaskCreate(FALSE, 1, 2, bn, "B1", "W1", Nothing)>> : bn \in BatchNumbers}

NextUpdates ==
    \/ \E tasks \in UpdatesBatches : CreateTasks(tasks)
    \/ \E task_id \in TaskIds, body \in UpdatesBodies : PutTask(task_id, body)

SpecUpdates == Init /\ [][NextUpdates]_vars

\* C24: a PUT /task/{id} that succeeds applies every scalar field its body
\* supplies: task_description, status_close and batch_number of the stored
\* task are then the supplied values.
C24_ScalarFieldsApplied ==
    [][\A task_id \in TaskIds, body \in UpdatesBodies :
          (PutTask(task_id, body) /\ last'.http = 200)
          => /\ "task_description" \in body.keys
                => db'.tasks[task_id].task_description = body.task_description
             /\ "status_close" \in body.keys
                => db'.tasks[task_id].status_close = body.status_close
             /\ "batch_number" \in body.keys
                => db'.tasks[task_id].batch_number = body.batch_number]_vars

\* C25: POST /task/ and POST /tasks/ answer 201 when the service call returns
\* and 400 when it raises, whatever it raises; they answer nothing else.
C25_CreateStatusCodes ==
    [][/\ \A task \in AtomicTaskCreates :
             CreateTask(task)
             => /\ last'.http = IF last'.svc_exc = None THEN 201 ELSE 400
                /\ last'.http = 201 <=> Len(db'.tasks) = Len(db.tasks) + 1
       /\ \A tasks \in AtomicBatches :
             CreateTasks(tasks)
             => /\ last'.http = IF last'.svc_exc = None THEN 201 ELSE 400
                /\ last'.http = 201
                   <=> Len(db'.tasks) = Len(db.tasks) + Len(tasks)]_vars

\* C25's case: POST /task/ has just answered 400 to a request without a
\* product list, on a store holding a task.
C25_Witness ==
    /\ last.op = "create_task"
    /\ last.svc_exc = "ValidationError"
    /\ last.http = 400
    /\ Len(db.tasks) = 1
    /\ db.products = {}

(***************************************************************************)
(* SpecTransaction: one request's session, step by step: statements,       *)
(* entries into and exits from BaseRepository._transaction scopes nested   *)
(* up to MaxDepth, exceptions that leave the scopes, and the close of the  *)
(* session.  Requests follow one another, each on a session of its own.    *)
(***************************************************************************)
\* session = AsyncSessionLocal(): scopes holds, for each _transaction scope
\* that is open, the session as it was when the scope was entered; raised
\* says that an exception is leaving the scopes.
TxOpen(sid) ==
    /\ \A o \in SessionIds : sessions[o].pc = "idle"
    /\ sessions' = [sessions EXCEPT ![sid] =
                       [pc |-> "open", s |-> AsyncSessionLocal(db),
                        scopes |-> <<>>, raised |-> FALSE]]
    /\ UNCHANGED <<db, now, last, aggLog>>

\* self.db.add(Brigade(name=name)); await self.db.flush()
TxExecute(sid, name) ==
    /\ sessions[sid].pc = "open"
    /\ ~sessions[sid].raised
    /\ Len(sessions[sid].s.work.brigades) < MaxTasks
    /\ sessions' = [sessions EXCEPT ![sid].s =
                       [execute(@) EXCEPT !.work.brigades = flush_insert(@, name)]]
    /\ UNCHANGED <<db, now, last, aggLog>>

\* async with self._transaction():
TxEnter(sid) ==
    /\ sessions[sid].pc = "open"
    /\ ~sessions[sid].raised
    /\ Len(sessions[sid].scopes) < MaxDepth
    /\ sessions' = [sessions EXCEPT ![sid].scopes = Append(@, sessions[sid].s),
                                    ![sid].s = transaction_enter(@)]
    /\ UNCHANGED <<db, now, last, aggLog>>

\* An exception is raised inside a scope; the repositories re-raise it.
TxRaise(sid) ==
    /\ sessions[sid].pc = "open"
    /\ ~sessions[sid].raised
    /\ sessions[sid].scopes # <<>>
    /\ sessions' = [sessions EXCEPT ![sid].raised = TRUE]
    /\ UNCHANGED <<db, now, last, aggLog>>

\* The innermost scope is left, by the end of its body or by the exception;
\* the exception that has left the last scope is caught by the service.
TxExit(sid) ==
    LET se == sessions[sid]
        s0 == se.scopes[Len(se.scopes)]
        r == IF se.raised THEN Raise(se.s, "Exception") ELSE Ok(se.s, NoId)
        out == transaction_exit(s0, r)
    IN /\ se.pc = "open"
       /\ se.scopes # <<>>
       /\ sessions' = [sessions EXCEPT
                          ![sid].s = out.s,
                          ![sid].scopes = SubSeq(@, 1, Len(@) - 1),
                          ![sid].raised = se.raised /\ Len(se.scopes) > 1]
       /\ db' = out.s.committed
       /\ UNCHANGED <<now, last, aggLog>>

\* await session.close() in get_db
TxClose(sid) ==
    /\ sessions[sid].pc = "open"
    /\ sessions[sid].scopes = <<>>
    /\ db' = get_db(sessions[sid].s)
    /\ sessions' = [sessions EXCEPT ![sid] = IdleSession]
    /\ UNCHANGED <<now, last, aggLog>>

NextTransaction ==
    \/ \E sid \in SessionIds : TxOpen(sid)
    \/ \E sid \in SessionIds, name \in BrigadeNames : TxExecute(sid, name)
    \/ \E sid \in SessionIds : TxEnter(sid)
    \/ \E sid \in SessionIds : TxRaise(sid)
    \/ \E sid \in SessionIds : TxExit(sid)
    \/ \E sid \in SessionIds : TxClose(sid)

SpecTransaction == Init /\ [][NextTransaction]_vars

\* The open scopes of session sid that began a transaction when entered.
ScopesThatBegan(sid) ==
    {i \in DOMAIN sessions[sid].scopes : ~sessions[sid].scopes[i].in_tx}

OneTransaction ==
    \A sid \in SessionIds :
        sessions[sid].pc = "open"
        => /\ ScopesThatBegan(sid) \subseteq {1}
           /\ sessions[sid].scopes # <<>> => sessions[sid].s.in_tx

\* C26: nested _transaction scopes never start a second transaction.  Of the
\* open scopes of a session at most the outermost began one; a scope entered
\* outside a transaction begins one, commits it when its body ends and rolls
\* it back when an exception leaves it; a scope entered inside a transaction
\* begins, commits and rolls back nothing.
C26_NestedScopes ==
    /\ []OneTransaction
    /\ [][\A sid \in SessionIds :
             LET se == sessions[sid]
                 se_after == sessions'[sid]
             IN /\ TxEnter(sid)
                   => /\ se_after.s.in_tx
                      /\ se_after.s.work = se.s.work
                      /\ se_after.s.committed = se.s.committed
                /\ (TxExit(sid) /\ se.scopes[Len(se.scopes)].in_tx)
                   => se_after.s = se.s /\ db' = db
                /\ (TxExit(sid) /\ ~se.scopes[Len(se.scopes)].in_tx /\ ~se.raised)
                   => /\ db' = se.s.work
                      /\ se_after.s.work = se.s.work
                      /\ ~se_after.s.in_tx
                /\ (TxExit(sid) /\ ~se.scopes[Len(se.scopes)].in_tx /\ se.raised)
                   => /\ db' = db
                      /\ se_after.s.work = db
                      /\ ~se_after.s.in_tx]_vars

\* C26's case: inside the scope that began the transaction a nested scope is
\* open and a row has been flushed in it, uncommitted.
C26_Witness ==
    \E sid \in SessionIds :
        /\ sessions[sid].pc = "open"
        /\ Len(sessions[sid].scopes) = 2
        /\ ~sessions[sid].scopes[1].in_tx
        /\ sessions[sid].scopes[2].in_tx
        /\ sessions[sid].s.work.brigades # sessions[sid].scopes[2].work.brigades
        /\ db.brigades = <<>>

\* C28: a data-store error inside a repository operation (here the unique
\* violation at the flush of create_product_data and of update_task_products)
\* reaches the caller as a RepositoryException, never as another exception.
C28_StoreErrorsWrapped ==
    [][/\ \A task_id \in TaskIds, products_data \in ProductsDictLists :
             (UpdateTaskProducts(task_id, products_data) /\ last'.repo_exc # None)
             => last'.repo_exc = "RepositoryException"
       /\ \A task \in ProductsTaskCreates :
             (CreateTask(task) /\ last'.repo_exc # None)
             => last'.repo_exc = "RepositoryException"]_vars

(***************************************************************************)
(* SpecAggregate: POST /task/aggregate requests that run at the same time, *)
(* each on its session.  A request reads the product, checks it, and then  *)
(* writes and commits; other requests run between the two steps.  A        *)
(* session sees what is committed (READ COMMITTED).                        *)
(***************************************************************************)
AggregateBatches ==
    {<<TaskCreate(FALSE, 1, 2, 1, "B1", "W1", Some(<<AtomicProduct(ekn_code)>>))>> :
        ekn_code \in EknCodes}

\* select(Product).where(ekn_code == ekn_code) ... first(), and the three
\* checks on the row that was read; a failed check rolls back and raises.
AggregateSelect(sid, task_id, ekn_code) ==
    LET found == {p \in db.products : p.ekn_code = ekn_code}
        product == CHOOSE p \in found : TRUE
        exc == IF found = {} THEN ProductNotFoundException(1)
               ELSE IF product.task_id # task_id THEN ProductWrongBatchException(1)
               ELSE IF product.is_aggregated THEN ProductAlreadyAggregatedException(1)
               ELSE None
    IN /\ sessions[sid].pc = "idle"
       /\ sessions' = [sessions EXCEPT ![sid] =
                          [pc |-> IF exc = None THEN "checked" ELSE "failed",
                           task_id |-> task_id, ekn_code |-> ekn_code,
                           product_id |-> IF exc = None THEN product.id ELSE NoId]]
       /\ UNCHANGED <<db, now, last, aggLog>>

\* product.is_aggregated = True; product.aggregated_at = datetime.now();
\* commit: the UPDATE names the row by its id and writes both columns.
AggregateCommit(sid) ==
    LET se == sessions[sid]
    IN /\ se.pc = "checked"
       /\ now < MaxTime
       /\ db' = [db EXCEPT !.products =
                    {IF p.id = se.product_id
                     THEN [p EXCEPT !.is_aggregated = TRUE, !.aggregated_at = Tick]
                     ELSE p : p \in @}]
       /\ now' = Tick
       /\ aggLog' = aggLog \cup {[task_id |-> se.task_id, ekn_code |-> se.ekn_code,
                                  at |-> Tick]}
       /\ sessions' = [sessions EXCEPT ![sid].pc = "aggregated"]
       /\ UNCHANGED last

\* The request is answered and its session closed.
AggregateClose(sid) ==
    /\ sessions[sid].pc \in {"aggregated", "failed"}
    /\ sessions' = [sessions EXCEPT ![sid] = IdleSession]
    /\ UNCHANGED <<db, now, last, aggLog>>

NextAggregate ==
    \/ \E tasks \in AggregateBatches : CreateTasks(tasks)
    \/ \E sid \in SessionIds, task_id \in TaskIds, ekn_code \in EknCodes :
           AggregateSelect(sid, task_id, ekn_code)
    \/ \E sid \in SessionIds : AggregateCommit(sid)
    \/ \E sid \in SessionIds : AggregateClose(sid)

SpecAggregate == Init /\ [][NextAggregate]_vars

\* C29: however concurrent aggregate_product calls interleave, at most one
\* call succeeds for a product and its aggregated_at is written once.
C29_AggregatedOnce ==
    \A ekn_code \in EknCodes :
        Cardinality({l \in aggLog : l.ekn_code = ekn_code}) <= 1

\* The TaskCreate inputs on which the two creations are compared: with and
\* without a product list, with ordered and with equal shift times.
AgreeTaskCreates ==
    AtomicTaskCreates
    \cup {TaskCreate(FALSE, 2, 2, 1, "B1", "W1", Some(<<AtomicProduct("E2")>>))}

\* TaskService.create(x) and TaskService.create_batch([x]) on store d: both
\* succeed and leave the same store, or both fail and leave d.
CreateAgrees(d, x) ==
    LET single == TaskService_create(AsyncSessionLocal(d), x)
        batch == TaskService_create_batch(AsyncSessionLocal(d), <<x>>)
    IN IF single.exc = None
       THEN batch.exc = None /\ get_db(batch.s) = get_db(single.s)
       ELSE batch.exc # None /\ get_db(batch.s) = d /\ get_db(single.s) = d

\* C30: single and batch creation agree: on every store and for every
\* TaskCreate x, create(x) and create_batch([x]) both succeed with the same
\* persisted task, products, brigade and work center, or both fail and
\* persist nothing.
C30_SingleAndBatchAgree ==
    \A x \in AgreeTaskCreates :
        (/\ Len(db.tasks) < MaxTasks
         /\ db.product_seq + ProductCount(x.product) <= MaxProductId)
        => CreateAgrees(db, x)

====
